---- MODULE Spec2Model ----
(***************************************************************************)
(* The neighbor routing extension of the DTN daemon                        *)
(* (daemon/src/routing/NeighborRoutingExtension.cpp): the worker loop      *)
(* run(), the event handler notify(), and the collaborators they call      *)
(* (task queue, neighbor database, bundle storage, transport).             *)
(***************************************************************************)
EXTENDS Integers, Sequences, FiniteSets, TLC

(* ---------------------------------------------------------------------- *)
(* Bounds of the model                                                     *)
(* ---------------------------------------------------------------------- *)

\* environment events are accepted only while the task queue is shorter
MaxQueue == 2

\* transfer capacity of one neighbor entry (size of its in-transit set)
MaxTransit == 2

\* the size of a store that holds more admissible bundles than the limit
MaxStore == 12

(* ---------------------------------------------------------------------- *)
(* Endpoint identifiers: <<node, application>>, application 0 = none       *)
(* ---------------------------------------------------------------------- *)

\* EID::getNode(): the identifier without its application part
getNode(e) == <<e[1], 0>>

\* BundleCore::local, the node identifier of this daemon
local == <<0, 0>>

\* the identifiers of the peers: those that occur in events and tasks
EIDs == {<<1, 1>>, <<2, 0>>}

(* ---------------------------------------------------------------------- *)
(* Bundles                                                                 *)
(* ---------------------------------------------------------------------- *)

Bundles == 1..3

\* the meta data of the bundles the store can hold
BundleMeta(b) ==
    CASE b = 1 -> [id |-> 1, destination |-> <<1, 2>>, singleton |-> TRUE,  hopcount |-> 1]
      [] b = 2 -> [id |-> 2, destination |-> <<3, 0>>, singleton |-> FALSE, hopcount |-> 1]
      [] b = 3 -> [id |-> 3, destination |-> <<3, 0>>, singleton |-> FALSE, hopcount |-> 0]
      [] OTHER -> [id |-> b, destination |-> <<3, 0>>, singleton |-> FALSE, hopcount |-> 1]

\* every meta data record the candidate filter can be asked about
Metas == [id : Bundles, destination : EIDs \cup {<<0, 1>>, <<1, 2>>, <<3, 0>>},
          singleton : BOOLEAN, hopcount : 0..1]

Reasons == {"undefined", "retry_limit_reached", "bundle_deleted",
            "connection_down", "refused"}

VARIABLES
    store,      \* bundle storage: the ids of the stored bundles
    queue,      \* _taskqueue: sequence of tasks
    aborted,    \* _taskqueue.abort() has been called
    neighbors,  \* BundleCore::getNeighbors(): node EIDs currently available
    transit,    \* neighbor entry: in-transit set, per EID
    known,      \* neighbor entry: known-bundle set, per EID
    out,        \* transport: number of outstanding transfers per EID, bundle
    lock,       \* mutex of the neighbor database: "free" or "dispatcher"
    pc,         \* position of the worker thread in run()
    task,       \* the task run() is working on
    cands,      \* the list returned by storage.get(filter), rest to send
    nl,         \* the neighbor set taken by the process-bundle branch
    fanPushed,  \* the EIDs pushed so far by the process-bundle branch
    reports     \* number of status reports raised, per bundle

vars == <<store, queue, aborted, neighbors, transit, known, out,
          lock, pc, task, cands, nl, fanPushed, reports>>

NoTask == [kind |-> "none"]

\* SearchNextBundleTask(eid)
SearchNextBundleTask(e) == [kind |-> "search", eid |-> e]

\* ProcessBundleTask(meta, origin)
ProcessBundleTask(b) == [kind |-> "process"]

\* The extension starts with an empty task queue and no neighbor state; the
\* storage, which outlives the extension, holds the bundles.
Init ==
    /\ store = Bundles
    /\ queue = <<>>
    /\ aborted = FALSE
    /\ neighbors = {}
    /\ transit = [e \in EIDs |-> {}]
    /\ known = [e \in EIDs |-> {}]
    /\ out = [e \in EIDs |-> [b \in Bundles |-> 0]]
    /\ lock = "free"
    /\ pc = "pop"
    /\ task = NoTask
    /\ cands = <<>>
    /\ nl = {}
    /\ fanPushed = <<>>
    /\ reports = [b \in Bundles |-> 0]

(* ---------------------------------------------------------------------- *)
(* Bundle candidate filter (class BundleFilter in run())                   *)
(* ---------------------------------------------------------------------- *)

\* a filter whose limit no store reaches
limitStore == MaxStore + 1

\* BundleFilter::limit()
limit == 10

\* shouldAdd with the comparison of the neighbor's node inverted
shouldAddInverted(eid, kn, meta) ==
    IF meta.hopcount = 0 THEN FALSE
    ELSE IF meta.singleton /\ getNode(meta.destination) = local THEN FALSE
    ELSE IF meta.singleton /\ getNode(eid) = getNode(meta.destination) THEN FALSE
    ELSE IF meta.id \in kn THEN FALSE
    ELSE TRUE

\* shouldAdd that also rejects what is reserved in the in-transit set of
\* the entry
shouldAddNotInTransit(eid, kn, meta) ==
    IF meta.hopcount = 0 THEN FALSE
    ELSE IF meta.id \in transit[eid] THEN FALSE
    ELSE IF meta.singleton /\ getNode(meta.destination) = local THEN FALSE
    ELSE IF meta.singleton /\ getNode(eid) # getNode(meta.destination) THEN FALSE
    ELSE IF meta.id \in kn THEN FALSE
    ELSE TRUE

\* shouldAdd without the check of the hop limit
shouldAddAnyHop(eid, kn, meta) ==
    IF meta.singleton /\ getNode(meta.destination) = local THEN FALSE
    ELSE IF meta.singleton /\ getNode(eid) # getNode(meta.destination) THEN FALSE
    ELSE IF meta.id \in kn THEN FALSE
    ELSE TRUE

\* BundleFilter::shouldAdd(meta) of the filter built for the entry with
\* identifier eid and known-bundle set kn
shouldAdd(eid, kn, meta) ==
    IF meta.hopcount = 0 THEN FALSE
    ELSE IF meta.singleton /\ getNode(meta.destination) = local THEN FALSE
    ELSE IF meta.singleton /\ getNode(eid) # getNode(meta.destination) THEN FALSE
    ELSE IF meta.id \in kn THEN FALSE
    ELSE TRUE

(* ---------------------------------------------------------------------- *)
(* Collaborators: bundle storage, neighbor database, transport, queue      *)
(* ---------------------------------------------------------------------- *)

\* the ids in S in increasing order
RECURSIVE SortedSeq(_)
SortedSeq(S) ==
    IF S = {} THEN <<>>
    ELSE LET m == CHOOSE x \in S : \A y \in S : x <= y
         IN <<m>> \o SortedSeq(S \ {m})

\* storage.get(filter): the lists the store may return for entry e, at most
\* limit() stored bundles the filter admits
QueryResults(e) ==
    LET admitted == {b \in store : shouldAdd(e, known[e], BundleMeta(b))}
        n == IF Cardinality(admitted) < limit THEN Cardinality(admitted) ELSE limit
    IN {SortedSeq(S) : S \in {T \in SUBSET admitted : Cardinality(T) = n}}

\* NeighborDatabase::get(eid) finds no entry of an available neighbor
NeighborNotAvailable(e) == getNode(e) \notin {getNode(n) : n \in neighbors}

\* the outcome of reserving bundle b in the in-transit set of entry e
acquireTransfer(e, b) ==
    IF Cardinality(transit[e]) >= MaxTransit THEN "no_more_transfers"
    ELSE IF b \in transit[e] THEN "already_in_transit"
    ELSE "ok"

\* try_begin_transfer succeeded: b joins the in-transit set of e
beginTransfer(e, b) == [transit EXCEPT ![e] = @ \cup {b}]

\* end_transfer(e, b)
endTransfer(e, b) == [transit EXCEPT ![e] = @ \ {b}]

\* mark_known(e, b)
markKnown(e, b) == [known EXCEPT ![e] = @ \cup {b}]

\* the transport accepts the transfer of b to e
submit(e, b) == [out EXCEPT ![e][b] = @ + 1]

\* the conclusion that releases the reservation of a completed transfer only
ConcludeTransferKeepOnAbort(p, b, completed) ==
    IF out[p][b] > 0
    THEN /\ lock = "free"
         /\ out' = [out EXCEPT ![p][b] = @ - 1]
         /\ transit' = IF completed THEN endTransfer(p, b) ELSE transit
         /\ known' = IF completed THEN markKnown(p, b) ELSE known
    ELSE UNCHANGED <<out, transit, known>>

\* The transport concludes the outstanding transfer of b to p, if there is
\* one: the router releases the reservation under the database lock and,
\* when the transfer completed, records the bundle as known by the peer.
ConcludeTransfer(p, b, completed) ==
    IF out[p][b] > 0
    THEN /\ lock = "free"
         /\ out' = [out EXCEPT ![p][b] = @ - 1]
         /\ transit' = endTransfer(p, b)
         /\ known' = IF completed THEN markKnown(p, b) ELSE known
    ELSE UNCHANGED <<out, transit, known>>

\* the queue has been aborted: getnpop() signals it instead of a task
QueueClosed == aborted

\* _taskqueue.push(t)
push(t) == queue' = Append(queue, t)

\* the environment delivers events only while the queue is short
CanNotify == Len(queue) < MaxQueue

dispVars == <<pc, task, cands, nl, fanPushed, lock>>

\* the bundle is a singleton bundle addressed to the node of the peer
DeliveredTo(meta, peer) ==
    getNode(meta.destination) = getNode(peer) /\ meta.singleton

(* ---------------------------------------------------------------------- *)
(* notify(): the events                                                    *)
(* ---------------------------------------------------------------------- *)

\* QueueBundleEvent for bundle b
QueueBundle(b) ==
    /\ CanNotify
    /\ push(ProcessBundleTask(b))
    /\ UNCHANGED <<store, aborted, neighbors, transit, known, out, reports>>
    /\ UNCHANGED dispVars

\* the completed handler raising the report although the bundle is gone
TransferCompletedReportAlways(p, b) ==
    /\ CanNotify
    /\ ConcludeTransfer(p, b, TRUE)
    /\ IF DeliveredTo(BundleMeta(b), p)
       THEN /\ store' = store \ {b}
            /\ reports' = [reports EXCEPT ![b] = @ + 1]
            /\ push(SearchNextBundleTask(p))
       ELSE UNCHANGED <<store, reports, queue>>
    /\ UNCHANGED <<aborted, neighbors>>
    /\ UNCHANGED dispVars

\* the completed handler removing the bundle whatever its destination
TransferCompletedRemoveAny(p, b) ==
    /\ CanNotify
    /\ ConcludeTransfer(p, b, TRUE)
    /\ store' = store \ {b}
    /\ IF DeliveredTo(BundleMeta(b), p)
       THEN /\ reports' = IF b \in store
                          THEN [reports EXCEPT ![b] = @ + 1] ELSE reports
            /\ push(SearchNextBundleTask(p))
       ELSE UNCHANGED <<reports, queue>>
    /\ UNCHANGED <<aborted, neighbors>>
    /\ UNCHANGED dispVars

\* TransferCompletedEvent for bundle b and peer p
TransferCompleted(p, b) ==
    /\ CanNotify
    /\ ConcludeTransfer(p, b, TRUE)
    /\ IF DeliveredTo(BundleMeta(b), p)
       THEN /\ IF b \in store
               THEN /\ store' = store \ {b}
                    /\ reports' = [reports EXCEPT ![b] = @ + 1]
               ELSE UNCHANGED <<store, reports>>
            /\ push(SearchNextBundleTask(p))
       ELSE UNCHANGED <<store, reports, queue>>
    /\ UNCHANGED <<aborted, neighbors>>
    /\ UNCHANGED dispVars

\* the aborted handler removing a refused bundle whatever its destination
TransferAbortedRemoveAny(p, b, r) ==
    /\ CanNotify
    /\ r \in Reasons
    /\ ConcludeTransfer(p, b, FALSE)
    /\ IF r = "connection_down"
       THEN UNCHANGED <<store, queue>>
       ELSE /\ store' = IF r = "refused" THEN store \ {b} ELSE store
            /\ push(SearchNextBundleTask(p))
    /\ UNCHANGED <<aborted, neighbors, reports>>
    /\ UNCHANGED dispVars

\* the aborted handler leaving the switch on connection down with break
TransferAbortedBreak(p, b, r) ==
    /\ CanNotify
    /\ r \in Reasons
    /\ ConcludeTransfer(p, b, FALSE)
    /\ store' = IF r = "refused" /\ b \in store /\ DeliveredTo(BundleMeta(b), p)
                THEN store \ {b} ELSE store
    /\ push(SearchNextBundleTask(p))
    /\ UNCHANGED <<aborted, neighbors, reports>>
    /\ UNCHANGED dispVars

\* TransferAbortedEvent for bundle b and peer p with reason r
TransferAborted(p, b, r) ==
    /\ CanNotify
    /\ r \in Reasons
    /\ ConcludeTransfer(p, b, FALSE)
    /\ IF r = "connection_down"
       THEN UNCHANGED <<store, queue>>
       ELSE /\ store' = IF r = "refused" /\ b \in store /\ DeliveredTo(BundleMeta(b), p)
                        THEN store \ {b} ELSE store
            /\ push(SearchNextBundleTask(p))
    /\ UNCHANGED <<aborted, neighbors, reports>>
    /\ UNCHANGED dispVars

\* the node handler pushing the search whatever the action
NodeEventPushAlways(n, action) ==
    /\ CanNotify
    /\ neighbors' = IF action = "available"
                    THEN neighbors \cup {n} ELSE neighbors \ {n}
    /\ push(SearchNextBundleTask(n))
    /\ UNCHANGED <<store, aborted, transit, known, out, reports>>
    /\ UNCHANGED dispVars

\* NodeEvent for node n: action is "available" or "unavailable"
NodeEvent(n, action) ==
    /\ CanNotify
    /\ IF action = "available"
       THEN /\ neighbors' = neighbors \cup {n}
            /\ push(SearchNextBundleTask(n))
       ELSE /\ neighbors' = neighbors \ {n}
            /\ UNCHANGED queue
    /\ UNCHANGED <<store, aborted, transit, known, out, reports>>
    /\ UNCHANGED dispVars

\* the states of a ConnectionEvent
ConnectionStates == {"setup", "up", "down", "timeout"}

\* ConnectionEvent for peer p in one of the ConnectionStates
ConnectionEvent(p, state) ==
    /\ CanNotify
    /\ IF state = "up"
       THEN push(SearchNextBundleTask(p))
       ELSE UNCHANGED queue
    /\ UNCHANGED <<store, aborted, neighbors, transit, known, out, reports>>
    /\ UNCHANGED dispVars

\* __cancellation(): the task queue is aborted
Cancellation ==
    /\ ~aborted
    /\ aborted' = TRUE
    /\ UNCHANGED <<store, queue, neighbors, transit, known, out, reports>>
    /\ UNCHANGED dispVars

(* ---------------------------------------------------------------------- *)
(* run(): the worker loop                                                  *)
(* ---------------------------------------------------------------------- *)

envVars == <<store, aborted, neighbors, reports>>

Range(s) == {s[i] : i \in 1..Len(s)}

\* the loop going on after the queue has been aborted
PopIgnoreAbort ==
    /\ pc = "pop"
    /\ queue # <<>>
    /\ task' = Head(queue)
    /\ queue' = Tail(queue)
    /\ pc' = IF Head(queue).kind = "search" THEN "search" ELSE "process"
    /\ UNCHANGED <<cands, nl, fanPushed, lock, transit, known, out>>
    /\ UNCHANGED envVars

\* the loop taking the task pushed last
PopLast ==
    /\ pc = "pop"
    /\ IF QueueClosed
       THEN /\ pc' = "exited"
            /\ UNCHANGED <<task, queue>>
       ELSE /\ queue # <<>>
            /\ task' = queue[Len(queue)]
            /\ queue' = SubSeq(queue, 1, Len(queue) - 1)
            /\ pc' = IF queue[Len(queue)].kind = "search" THEN "search" ELSE "process"
    /\ UNCHANGED <<cands, nl, fanPushed, lock, transit, known, out>>
    /\ UNCHANGED envVars

\* _taskqueue.getnpop(true): the next task, or the exception of the aborted
\* queue, which run() catches as std::exception and returns
Pop ==
    /\ pc = "pop"
    /\ IF QueueClosed
       THEN /\ pc' = "exited"
            /\ UNCHANGED <<task, queue>>
       ELSE /\ queue # <<>>
            /\ task' = Head(queue)
            /\ queue' = Tail(queue)
            /\ pc' = IF Head(queue).kind = "search" THEN "search" ELSE "process"
    /\ UNCHANGED <<cands, nl, fanPushed, lock, transit, known, out>>
    /\ UNCHANGED envVars

\* the search going on without the lock of the neighbor database
AcquireEntryNoLock ==
    /\ pc = "search"
    /\ IF NeighborNotAvailable(task.eid)
       THEN /\ pc' = "pop"
            /\ task' = NoTask
       ELSE /\ pc' = "query"
            /\ UNCHANGED task
    /\ UNCHANGED <<lock, queue, cands, nl, fanPushed, transit, known, out>>
    /\ UNCHANGED envVars

\* MutexLock l(db); db.get(task.eid)
AcquireEntry ==
    /\ pc = "search"
    /\ lock = "free"
    /\ IF NeighborNotAvailable(task.eid)
       THEN /\ pc' = "pop"
            /\ task' = NoTask
            /\ UNCHANGED lock
       ELSE /\ pc' = "query"
            /\ lock' = "dispatcher"
            /\ UNCHANGED task
    /\ UNCHANGED <<queue, cands, nl, fanPushed, transit, known, out>>
    /\ UNCHANGED envVars

\* the search pushing itself again when the store returned candidates
QueryRequeue ==
    /\ pc = "query"
    /\ \E l \in QueryResults(task.eid) :
         IF l = <<>>
         THEN /\ pc' = "pop"
              /\ task' = NoTask
              /\ lock' = "free"
              /\ UNCHANGED <<cands, queue>>
         ELSE /\ pc' = "transfer"
              /\ cands' = l
              /\ push(task)
              /\ UNCHANGED <<task, lock>>
    /\ UNCHANGED <<nl, fanPushed, transit, known, out>>
    /\ UNCHANGED envVars

\* storage.get(filter) returns the candidates
Query ==
    /\ pc = "query"
    /\ \E l \in QueryResults(task.eid) :
         IF l = <<>>
         THEN /\ pc' = "pop"
              /\ task' = NoTask
              /\ lock' = "free"
              /\ UNCHANGED cands
         ELSE /\ pc' = "transfer"
              /\ cands' = l
              /\ UNCHANGED <<task, lock>>
    /\ UNCHANGED <<queue, nl, fanPushed, transit, known, out>>
    /\ UNCHANGED envVars

\* storage.get(filter) fails with an exception that is none of the expected
\* ones: the outer handler of run() logs it and returns
QueryFails ==
    /\ pc = "query"
    /\ pc' = "exited"
    /\ lock' = "free"
    /\ UNCHANGED <<task, queue, cands, nl, fanPushed, transit, known, out>>
    /\ UNCHANGED envVars

\* the outcome of transferTo(entry, bundle)
transferTo(e, b) ==
    IF NeighborNotAvailable(e) THEN "neighbor_not_available"
    ELSE acquireTransfer(e, b)

\* the rest of the search after the head of the list has been handled
NextCandidate ==
    IF Tail(cands) = <<>>
    THEN /\ pc' = "pop"
         /\ task' = NoTask
         /\ cands' = <<>>
         /\ lock' = "free"
    ELSE /\ cands' = Tail(cands)
         /\ UNCHANGED <<pc, task, lock>>

\* the loop handing every candidate to the transport unchecked
TransferUnchecked ==
    /\ pc = "transfer"
    /\ out' = submit(task.eid, Head(cands))
    /\ transit' = beginTransfer(task.eid, Head(cands))
    /\ NextCandidate
    /\ UNCHANGED <<queue, nl, fanPushed, known>>
    /\ UNCHANGED envVars

\* the loop ending the search at a bundle that is already in transit
TransferStopOnInTransit ==
    /\ pc = "transfer"
    /\ LET r == transferTo(task.eid, Head(cands))
       IN CASE r = "ok" ->
                 /\ transit' = beginTransfer(task.eid, Head(cands))
                 /\ out' = submit(task.eid, Head(cands))
                 /\ NextCandidate
            [] OTHER ->
                 /\ pc' = "pop"
                 /\ task' = NoTask
                 /\ cands' = <<>>
                 /\ lock' = "free"
                 /\ UNCHANGED <<transit, out>>
    /\ UNCHANGED <<queue, nl, fanPushed, known>>
    /\ UNCHANGED envVars

\* one round of the loop over the list: transferTo(entry, *iter)
Transfer ==
    /\ pc = "transfer"
    /\ LET r == transferTo(task.eid, Head(cands))
       IN CASE r = "ok" ->
                 /\ transit' = beginTransfer(task.eid, Head(cands))
                 /\ out' = submit(task.eid, Head(cands))
                 /\ NextCandidate
            [] r = "already_in_transit" ->
                 /\ NextCandidate
                 /\ UNCHANGED <<transit, out>>
            [] OTHER ->
                 /\ pc' = "pop"
                 /\ task' = NoTask
                 /\ cands' = <<>>
                 /\ lock' = "free"
                 /\ UNCHANGED <<transit, out>>
    /\ UNCHANGED <<queue, nl, fanPushed, known>>
    /\ UNCHANGED envVars

\* the next neighbor of the set taken: std::set iterates in order
NextNeighbor == CHOOSE n \in nl \ Range(fanPushed) :
                    \A m \in nl \ Range(fanPushed) : n[1] <= m[1]

\* the process-bundle branch pushing a task for the first neighbor only
ProcessBundleFirstOnly ==
    /\ \/ /\ pc = "process"
          /\ IF neighbors = {}
             THEN pc' = "pop" /\ task' = NoTask /\ UNCHANGED nl
             ELSE pc' = "fanout" /\ nl' = neighbors /\ UNCHANGED task
          /\ UNCHANGED <<queue, fanPushed>>
       \/ /\ pc = "fanout"
          /\ push(SearchNextBundleTask(NextNeighbor))
          /\ pc' = "pop" /\ task' = NoTask
          /\ nl' = {} /\ fanPushed' = <<>>
    /\ UNCHANGED <<cands, lock, transit, known, out>>
    /\ UNCHANGED envVars

\* the process-bundle branch: take the set of neighbors, then push one
\* SearchNextBundleTask per neighbor
ProcessBundle ==
    /\ \/ /\ pc = "process"
          /\ IF neighbors = {}
             THEN pc' = "pop" /\ task' = NoTask /\ UNCHANGED nl
             ELSE pc' = "fanout" /\ nl' = neighbors /\ UNCHANGED task
          /\ UNCHANGED <<queue, fanPushed>>
       \/ /\ pc = "fanout"
          /\ push(SearchNextBundleTask(NextNeighbor))
          /\ IF Range(fanPushed) \cup {NextNeighbor} = nl
             THEN /\ pc' = "pop" /\ task' = NoTask
                  /\ nl' = {} /\ fanPushed' = <<>>
             ELSE /\ fanPushed' = Append(fanPushed, NextNeighbor)
                  /\ UNCHANGED <<pc, task, nl>>
    /\ UNCHANGED <<cands, lock, transit, known, out>>
    /\ UNCHANGED envVars

\* Another routing extension hands bundle b to neighbor e: it takes the lock
\* of the neighbor database and calls transferTo for a stored bundle
OtherTransfer(e, b) ==
    /\ lock = "free"
    /\ b \in store
    /\ shouldAdd(e, known[e], BundleMeta(b))
    /\ transferTo(e, b) = "ok"
    /\ transit' = beginTransfer(e, b)
    /\ out' = submit(e, b)
    /\ UNCHANGED <<queue, known>>
    /\ UNCHANGED dispVars
    /\ UNCHANGED envVars

Dispatcher ==
    \/ Pop
    \/ AcquireEntry
    \/ Query
    \/ QueryFails
    \/ Transfer
    \/ ProcessBundle

Notify ==
    \/ \E b \in Bundles : QueueBundle(b)
    \/ \E p \in EIDs, b \in Bundles : TransferCompleted(p, b)
    \/ \E p \in EIDs, b \in Bundles, r \in Reasons : TransferAborted(p, b, r)
    \/ \E n \in EIDs, a \in {"available", "unavailable"} : NodeEvent(n, a)
    \/ \E p \in EIDs, s \in ConnectionStates : ConnectionEvent(p, s)

Next ==
    \/ Dispatcher
    \/ Notify
    \/ Cancellation
    \/ \E e \in EIDs, b \in Bundles : OtherTransfer(e, b)

Spec == Init /\ [][Next]_vars

\* A store of up to MaxStore bundles, both neighbors available and one
\* ProcessBundleTask queued: the worker searches once for every neighbor
InitStore ==
    /\ store \in {1..n : n \in Cardinality(Bundles)..MaxStore}
    /\ queue = <<ProcessBundleTask(1)>>
    /\ aborted = FALSE
    /\ neighbors = EIDs
    /\ transit = [e \in EIDs |-> {}]
    /\ known = [e \in EIDs |-> {}]
    /\ out = [e \in EIDs |-> [b \in 1..MaxStore |-> 0]]
    /\ lock = "free"
    /\ pc = "pop"
    /\ task = NoTask
    /\ cands = <<>>
    /\ nl = {}
    /\ fanPushed = <<>>
    /\ reports = [b \in Bundles |-> 0]

\* the worker alone, no event arriving
NextStore == Dispatcher

StoreSpec == InitStore /\ [][NextStore]_vars

\* the worker thread is scheduled as long as it can take a step
FairSpec == Spec /\ WF_vars(Dispatcher)

(* ---------------------------------------------------------------------- *)
(* Properties                                                              *)
(* ---------------------------------------------------------------------- *)

\* C1: at most one transfer of a bundle to a neighbor is outstanding, and a
\* bundle is handed to the transport only together with a fresh reservation
\* in the in-transit set of the neighbor: an attempt for a bundle that is
\* already in transit submits nothing.
C1_AtMostOneInFlight ==
    /\ [](\A e \in EIDs, b \in Bundles :
            out[e][b] <= 1 /\ (out[e][b] = 1 => b \in transit[e]))
    /\ [][\A e \in EIDs, b \in Bundles :
            out'[e][b] > out[e][b] => b \notin transit[e] /\ b \in transit'[e]]_vars

\* the worker is about to call transferTo for a bundle whose earlier transfer
\* to the same neighbor is still outstanding
C1_Witness ==
    /\ pc = "transfer"
    /\ transferTo(task.eid, Head(cands)) = "already_in_transit"
    /\ out[task.eid][Head(cands)] = 1

\* C2: no step hands a bundle to the transport for a neighbor whose
\* known-bundle set contains the bundle, neither before nor after the step.
C2_NeverSendKnown ==
    [][\A e \in EIDs, b \in Bundles :
         out'[e][b] > out[e][b] => b \notin known[e] /\ b \notin known'[e]]_vars

\* the worker is in the middle of a search for a neighbor that knows some
\* bundle already, while the earlier transfer of a candidate not known yet
\* is outstanding (its completion would add it to the known-bundle set)
C2_Witness ==
    /\ pc = "transfer"
    /\ lock = "dispatcher"
    /\ known[task.eid] # {}
    /\ \E i \in 1..Len(cands) :
         out[task.eid][cands[i]] = 1 /\ cands[i] \notin known[task.eid]

\* C3: for a singleton bundle addressed to the node of the peer, a
\* transfer-completed event removes the bundle and raises one report if the
\* bundle is stored, changes neither store nor reports if it is absent,
\* pushes SearchNextBundleTask(peer) in both cases and does not stop the
\* worker; no bundle is ever reported twice, and a reported bundle is gone.
C3_DeliveredOnce ==
    /\ [](\A b \in Bundles :
            reports[b] <= 1 /\ (reports[b] = 1 => b \notin store))
    /\ [][\A p \in EIDs, b \in Bundles :
            TransferCompleted(p, b) /\ DeliveredTo(BundleMeta(b), p) =>
              /\ IF b \in store
                 THEN /\ store' = store \ {b}
                      /\ reports' = [reports EXCEPT ![b] = reports[b] + 1]
                 ELSE store' = store /\ reports' = reports
              /\ queue' = Append(queue, SearchNextBundleTask(p))
              /\ pc' = pc]_vars

\* bundle 1 has been delivered to its peer, removed and reported, and two
\* SearchNextBundleTasks of the peer wait in the queue
C3_Witness ==
    /\ reports[1] = 1
    /\ 1 \notin store
    /\ 1 \in known[<<1, 1>>]
    /\ out[<<1, 1>>][1] = 0
    /\ queue = <<SearchNextBundleTask(<<1, 1>>), SearchNextBundleTask(<<1, 1>>)>>

\* C4: a transfer-completed event for a bundle that is not a singleton
\* bundle addressed to the node of the peer pushes exactly one
\* SearchNextBundleTask(peer) and leaves the store unchanged.
C4_Stated ==
    [][\A p \in EIDs, b \in Bundles :
         TransferCompleted(p, b) /\ ~DeliveredTo(BundleMeta(b), p) =>
           /\ queue' = Append(queue, SearchNextBundleTask(p))
           /\ store' = store]_vars

\* C5: a transfer-aborted event with reason refused removes the bundle iff
\* it is stored and is a singleton bundle addressed to the node of the peer,
\* and pushes exactly one SearchNextBundleTask(peer) in every case.
C5_Refused ==
    [][\A p \in EIDs, b \in Bundles :
         TransferAborted(p, b, "refused") =>
           /\ store' = IF b \in store /\ BundleMeta(b).singleton
                           /\ getNode(BundleMeta(b).destination) = getNode(p)
                        THEN store \ {b} ELSE store
           /\ queue' = Append(queue, SearchNextBundleTask(p))
           /\ reports' = reports]_vars

\* bundle 1 has left the store without a report, which only a refusal does,
\* and the last task of the queue is the search for its peer
C5_Witness ==
    /\ 1 \notin store
    /\ reports[1] = 0
    /\ queue # <<>>
    /\ queue[Len(queue)] = SearchNextBundleTask(<<1, 1>>)

\* C6: a transfer-aborted event with reason connection down leaves the
\* store and the task queue unchanged.
C6_ConnectionDown ==
    [][\A p \in EIDs, b \in Bundles :
         TransferAborted(p, b, "connection_down") =>
           store' = store /\ queue' = queue /\ reports' = reports]_vars

\* a transfer is outstanding and its abort can be delivered
C6_Witness ==
    /\ CanNotify
    /\ lock = "free"
    /\ \E p \in EIDs, b \in Bundles : out[p][b] = 1 /\ b \in store

\* C7: the worker leaves its loop only when the task queue has been
\* aborted; no other error of a task ends it.
C7_Stated == pc = "exited" => aborted

\* C8: once the queue is aborted the worker leaves its loop, and from the
\* abort on no task is taken from the queue.
C8_AbortStops ==
    /\ aborted ~> pc = "exited"
    /\ [][aborted => Len(queue') >= Len(queue) /\ (task' = task \/ task' = NoTask)]_vars

\* the worker has left after the abort and tasks remain in the queue
C8_Witness == aborted /\ pc = "exited" /\ queue # <<>>

\* C9: the process-bundle branch takes the set of neighbors once, pushes one
\* SearchNextBundleTask for a neighbor of that set not served yet in every
\* round, ends exactly when all of them are served, and neither queries the
\* store nor touches the transfers.
C9_FanOut ==
    /\ [](pc = "fanout" =>
            /\ Range(fanPushed) \subseteq nl
            /\ Range(fanPushed) # nl
            /\ Cardinality(Range(fanPushed)) = Len(fanPushed))
    /\ [][ProcessBundle =>
            /\ store' = store /\ cands' = cands
            /\ out' = out /\ transit' = transit
            /\ pc = "process" => /\ queue' = queue
                                 /\ pc' = "fanout" => nl' = neighbors /\ nl' # {}
                                 /\ pc' # "fanout" => neighbors = {} /\ pc' = "pop"
            /\ pc = "fanout" =>
                 \E n \in nl \ Range(fanPushed) :
                   /\ queue' = Append(queue, SearchNextBundleTask(n))
                   /\ IF Range(fanPushed) \cup {n} = nl
                      THEN pc' = "pop"
                      ELSE pc' = "fanout" /\ nl' = nl
                           /\ fanPushed' = Append(fanPushed, n)]_vars

\* with two neighbors taken, the task of the first one is in the queue and
\* the second one is still to be served
C9_Witness ==
    /\ pc = "fanout"
    /\ Cardinality(nl) = 2
    /\ Len(fanPushed) = 1
    /\ \E i \in 1..Len(queue) : queue[i] = SearchNextBundleTask(fanPushed[1])

\* the filter of neighbor e admits meta for the singleton rule alone
SingletonRule(e, meta) ==
    getNode(e) = getNode(meta.destination) /\ getNode(meta.destination) # local

\* C10 as stated: the filter admits a singleton bundle for neighbor N iff the
\* node of N is the destination node and the local node is not.
C10_Stated ==
    \A e \in EIDs, m \in Metas :
      m.singleton => (shouldAdd(e, known[e], m) <=> SingletonRule(e, m))

\* C10 amended: the filter admits a singleton bundle with a hop count other
\* than zero that is not in the known-bundle set of N iff the node of N is
\* the destination node and the local node is not; it rejects every
\* singleton bundle with hop count zero or known by N.
C10_Amended ==
    \A e \in EIDs, m \in Metas :
      m.singleton =>
        (shouldAdd(e, known[e], m) <=>
           m.hopcount # 0 /\ m.id \notin known[e] /\ SingletonRule(e, m))

\* the store query has returned a singleton bundle for the neighbor while
\* the neighbor knows another bundle
C10_Witness ==
    /\ pc = "transfer"
    /\ BundleMeta(Head(cands)).singleton
    /\ known[task.eid] # {}

\* C11: the filter rejects every bundle with hop count zero, whatever its
\* singleton flag, its destination, the neighbor and the known-bundle set,
\* and no list returned to a search and no transfer handed to the transport
\* holds a bundle with hop count zero.
C11_HopZero ==
    /\ \A e \in EIDs, kn \in SUBSET Bundles, m \in Metas :
            m.hopcount = 0 => ~shouldAdd(e, kn, m)
    /\ [](\A i \in 1..Len(cands) : BundleMeta(cands[i]).hopcount # 0)
    /\ [][\A e \in EIDs, b \in Bundles :
            out'[e][b] > out[e][b] => BundleMeta(b).hopcount # 0]_vars

\* a search for neighbor <<2, 0>> works on the list of the store, which
\* holds bundle 3 (hop count zero, not singleton): the list is without it
C11_Witness ==
    /\ pc = "transfer"
    /\ task.eid = <<2, 0>>
    /\ 3 \in store
    /\ BundleMeta(3).hopcount = 0
    /\ 3 \notin Range(cands)

\* the stored bundles that the filter of entry e admits
Admitted(e) == {b \in store : shouldAdd(e, known[e], BundleMeta(b))}

C13_RemovalOnlyTwoWays ==
    [][store' # store =>
         /\ \E p \in EIDs, b \in store :
               /\ DeliveredTo(BundleMeta(b), p)
               /\ store' = store \ {b}
               /\ TransferCompleted(p, b) \/ TransferAborted(p, b, "refused")
         /\ ~Dispatcher
         /\ ~Cancellation
         /\ \A b \in Bundles : ~QueueBundle(b)
         /\ \A e \in EIDs, b \in Bundles : ~OtherTransfer(e, b)
         /\ \A n \in EIDs, a \in {"available", "unavailable"} : ~NodeEvent(n, a)
         /\ \A p \in EIDs, st \in ConnectionStates : ~ConnectionEvent(p, st)
         /\ \A p \in EIDs, b \in Bundles, r \in Reasons \ {"refused"} :
               ~TransferAborted(p, b, r)]_vars

\* bundle 1 has been removed, while bundle 2, whose transfer to a peer has
\* completed, and bundle 3 are still stored
C13_Witness ==
    /\ store = {2, 3}
    /\ \E e \in EIDs : 2 \in known[e]

\* C14 as stated: while the worker is inside the query of the store or
\* inside a call of transferTo, the lock of the neighbor database is free.
C14_Stated ==
    pc \in {"query", "transfer"} => lock = "free"

\* C15: every step leaves the queue as it is, appends one task behind all
\* the queued ones, or is the worker taking the oldest task as its current
\* task while the queue is not aborted; and tasks are taken again and
\* again, unless from some point on the queue is empty or aborted or the
\* worker has left. So every pushed task moves to the head and is taken
\* once, in the order of the pushes, while the queue is not aborted and the
\* worker has not left.
C15_Fifo ==
    /\ [][\/ queue' = queue
          \/ /\ Len(queue') = Len(queue) + 1
             /\ SubSeq(queue', 1, Len(queue)) = queue
          \/ /\ queue # <<>>
             /\ queue' = Tail(queue)
             /\ task' = Head(queue)
             /\ pc = "pop" /\ pc' \in {"search", "process"}
             /\ ~aborted]_vars
    /\ \/ []<><<queue # <<>> /\ queue' = Tail(queue)>>_vars
       \/ <>[](queue = <<>> \/ aborted \/ pc = "exited")

\* two different tasks of two producers wait in the queue and the worker is
\* at the pop
C15_Witness ==
    /\ pc = "pop"
    /\ ~aborted
    /\ Len(queue) >= 2
    /\ queue[1].kind = "process"
    /\ queue[2].kind = "search"

\* C16: a node event with action available and a connection event with
\* state up each push exactly one SearchNextBundleTask for that node or
\* peer; a node event with action unavailable and a connection event in any
\* other state push nothing; none of them changes the store.
C16_NeighborEvents ==
    [][\A n \in EIDs :
         /\ NodeEvent(n, "available") =>
               queue' = Append(queue, SearchNextBundleTask(n)) /\ store' = store
         /\ NodeEvent(n, "unavailable") =>
               queue' = queue /\ store' = store
         /\ \A st \in ConnectionStates :
               ConnectionEvent(n, st) =>
                 /\ store' = store
                 /\ queue' = IF st = "up"
                              THEN Append(queue, SearchNextBundleTask(n))
                              ELSE queue]_vars

\* neighbor <<2, 0>> has become available, nothing else has happened, and
\* the one task of the queue is the search for it
C16_Witness ==
    /\ neighbors = {<<2, 0>>}
    /\ queue = <<SearchNextBundleTask(<<2, 0>>)>>
    /\ pc = "pop"
    /\ task = NoTask
    /\ store = Bundles

\* C17: in a round of the loop over the list, a candidate that is already
\* in transit is left out without a submission and the search goes on with
\* the rest of the list, if there is one; the signal of no more transfers or
\* of a neighbor that is not available ends the search without a
\* submission and with the rest of the list dropped; in the three cases the
\* worker does not leave: it is at the next candidate or back at the pop.
C17_ExpectedSignals ==
    [][Transfer =>
         LET r == transferTo(task.eid, Head(cands))
         IN /\ r = "already_in_transit" =>
                 /\ out' = out /\ transit' = transit
                 /\ IF Tail(cands) # <<>>
                    THEN pc' = "transfer" /\ cands' = Tail(cands) /\ task' = task
                    ELSE pc' = "pop" /\ cands' = <<>>
            /\ r \in {"no_more_transfers", "neighbor_not_available"} =>
                 /\ out' = out /\ transit' = transit
                 /\ pc' = "pop" /\ cands' = <<>>
            /\ pc' # "exited"
            /\ \A e \in EIDs, b \in Bundles :
                 out'[e][b] > out[e][b] => e = task.eid /\ b = Head(cands)]_vars

\* the head of a list of two is already in transit and the second
\* candidate is not: the round skips the first and goes on to the second
C17_Witness ==
    /\ pc = "transfer"
    /\ Len(cands) = 2
    /\ transferTo(task.eid, cands[1]) = "already_in_transit"
    /\ cands[2] \notin transit[task.eid]

C19_Bound ==
    /\ [](Len(cands) <= 10)
    /\ [][Query =>
            LET a == Admitted(task.eid)
            IN IF pc' = "transfer"
               THEN /\ Range(cands') \subseteq a
                    /\ Len(cands') = IF Cardinality(a) < 10 THEN Cardinality(a) ELSE 10
               ELSE a = {}]_vars
    /\ [][\A e \in EIDs, b \in 1..MaxStore :
            out'[e][b] > out[e][b] =>
              pc = "transfer" /\ e = task.eid /\ b = Head(cands)]_vars
    /\ [](pc = "transfer" => Cardinality(transit[task.eid]) + Len(cands) <= 10)

\* the search works on a list of 10 while the store holds more than 10
\* bundles that the filter admits for the neighbor
C19_Witness ==
    /\ pc = "transfer"
    /\ Len(cands) = 10
    /\ Cardinality(Admitted(task.eid)) > 10
    /\ \E b \in Admitted(task.eid) : b \notin Range(cands)

\* C20: no step of the search branch changes the queue; a step of the
\* process-bundle branch leaves the queue or appends one
\* SearchNextBundleTask for a neighbor of the set it took; and if from some
\* point on only the worker takes steps, then from some point on the worker
\* waits at the pop with the queue empty, unless it has left its loop.
C20_Drains ==
    /\ [][AcquireEntry \/ Query \/ QueryFails \/ Transfer => queue' = queue]_vars
    /\ [][ProcessBundle =>
            \/ queue' = queue
            \/ \E n \in nl : queue' = Append(queue, SearchNextBundleTask(n))]_vars
    /\ (<>[][Dispatcher]_vars) =>
          <>[](pc = "exited" \/ (pc = "pop" /\ queue = <<>>))

\* transfers are outstanding, every task has been worked off and the
\* worker waits at the pop
C20_Witness ==
    /\ pc = "pop"
    /\ queue = <<>>
    /\ task = NoTask
    /\ ~aborted
    /\ \E e \in EIDs, b \in Bundles : out[e][b] = 1

====
